---- MODULE Spec2Model ----
(***************************************************************************)
(* A model of xcresult_extract.py: one run of main(), from the argument    *)
(* list to data.txt.                                                       *)
(*                                                                         *)
(* Strings are sequences of symbols.  A symbol is one character ("-", "/", *)
(* ",", ".", a digit, a letter) or a fixed word of the program written as  *)
(* one symbol ("project", ".xcodeproj", "Logs/Test").  The file system is  *)
(* a function from the paths of the directories that exist to their        *)
(* listings; the bundle is the JSON the inspection tool prints for it.     *)
(***************************************************************************)
EXTENDS Integers, Sequences, FiniteSets, TLC

VARIABLES
  args,          \* sys.argv[1:]
  fs,            \* directories that exist: path -> listing (name, mtime)
  bundle,        \* what xcresulttool prints: root document, summaries, logs
  pc,            \* position of main()
  flags,         \* result of parse_xcodebuild_flags
  project,       \* main's local project
  scheme,        \* main's local scheme
  newest,        \* last return value of find_newest_matching_prefix
  project_path,  \* find_xcresult_path's local project_path
  xcresult_path, \* main's local xcresult_path
  test_id,       \* main's local test_id
  tests_count,   \* main's local tests_count (a string)
  summary_id,    \* main's local summary_id (a list)
  sumID,         \* loop index of main (1-based here)
  log,           \* main's local log
  device_info,   \* main's local device_info
  result,        \* the list collect_log_output appends to
  listData,      \* main's local listData
  dataFile,      \* data.txt in the working directory
  dataWrites,    \* number of times data.txt was opened for writing
  stdout,        \* kinds of the lines written to stdout
  calls,         \* functions called so far, in call order
  toolPaths,     \* the --path arguments given to xcresulttool so far
  error,         \* the exception that ended the run, or "none"
  failedIn,      \* the function that raised it, or "none"
  exitCode       \* -1 while running, else the exit status

vars == << args, fs, bundle, pc, flags, project, scheme, newest, project_path, xcresult_path,
           test_id, tests_count, summary_id, sumID, log, device_info, result,
           listData, dataFile, dataWrites, stdout, calls, toolPaths, error,
           failedIn, exitCode >>

(***************************************************************************)
(* Bounds of the model.                                                    *)
(***************************************************************************)
MaxArgs == 3          \* longest enumerated argument list
MaxEntries == 3       \* longest enumerated directory listing
MaxMtime == 3         \* modification times are 1..MaxMtime
MaxTests == 3         \* largest reported test count
MaxSubtests == 3      \* longest enumerated innermost subtest list
MaxGroups == 2        \* most metric groups in an enumerated activity log
MaxMeasurements == 2  \* most measurements in an enumerated metric group
MaxUniformGroups == 8 \* longest run of equal one-measurement groups
FracDigits == 3       \* fractional digits kept when a float is printed
MaxActions == 2       \* most actions in an enumerated bundle

(***************************************************************************)
(* Sequence helpers.                                                       *)
(***************************************************************************)
Range(s) == { s[i] : i \in 1..Len(s) }

SeqsUpTo(S, n) == UNION { [1..k -> S] : k \in 0..n }

Min(a, b) == IF a <= b THEN a ELSE b

\* s[a..b], empty when a > b
Slice(s, a, b) == [i \in 1..(IF b >= a THEN b - a + 1 ELSE 0) |-> s[a + i - 1]]

StartsWith(s, p) == Len(s) >= Len(p) /\ \A i \in 1..Len(p) : s[i] = p[i]

Ok(v) == [err |-> "none", val |-> v]
Raise(e) == [err |-> e, val |-> <<>>]

\* Python: KeyError and IndexError are LookupErrors; OSError is not.
LookupErrors == {"LookupError", "KeyError", "IndexError"}

(***************************************************************************)
(* parse_xcodebuild_flags                                                  *)
(***************************************************************************)
FlagProject == <<"-", "project">>
FlagScheme == <<"-", "scheme">>
FlagBundle == <<"-", "resultBundlePath">>

INTERESTING_FLAGS == {FlagBundle, FlagScheme, FlagProject}

NoKey == <<>>   \* key = None; a key is otherwise a flag name, never empty

\* arg.startswith('-')
StartsWithDash(arg) == Len(arg) >= 1 /\ arg[1] = "-"

\* result[key] = arg
DictSet(d, k, v) == [x \in (DOMAIN d) \cup {k} |-> IF x = k THEN v ELSE d[x]]

RECURSIVE ParseLoop(_, _, _, _)
ParseLoop(as, i, key, res) ==
  IF i > Len(as) THEN res
  ELSE LET arg == as[i] IN
       IF StartsWithDash(arg)
       THEN ParseLoop(as, i + 1, IF arg \in INTERESTING_FLAGS THEN arg ELSE key, res)
       ELSE IF key # NoKey
            THEN ParseLoop(as, i + 1, NoKey, DictSet(res, key, arg))
            ELSE ParseLoop(as, i + 1, key, res)

EmptyDict == [x \in {} |-> <<>>]

parse_xcodebuild_flags(as) == ParseLoop(as, 1, NoKey, EmptyDict)

(***************************************************************************)
(* project_from_project_path                                               *)
(***************************************************************************)
DotSymbols == {".xcodeproj", ".txt"}

RECURSIVE LastSlash(_, _)
LastSlash(p, i) == IF i = 0 THEN 0 ELSE IF p[i] = "/" THEN i ELSE LastSlash(p, i - 1)

\* os.path.basename
basename(p) == Slice(p, LastSlash(p, Len(p)) + 1, Len(p))

\* os.path.splitext: the extension is the last dot-suffix, unless the name
\* consists of it alone
splitext(b) ==
  IF Len(b) >= 2 /\ b[Len(b)] \in DotSymbols
  THEN <<Slice(b, 1, Len(b) - 1), <<b[Len(b)]>> >>
  ELSE <<b, <<>> >>

project_from_project_path(path) ==
  LET re == splitext(basename(path)) IN
  IF re[2] = <<".xcodeproj">> THEN Ok(re[1]) ELSE Raise("ValueError")

(***************************************************************************)
(* find_newest_matching_prefix, find_project_path, find_xcresult_path      *)
(***************************************************************************)
DerivedData == <<"~/Library/Developer/Xcode/DerivedData">>

\* os.path.join for a relative second part
join(path, entry) == path \o <<"/">> \o entry

\* number of leading symbols of s, from position i on, that are not "-"
RECURSIVE NonDashRun(_, _)
NonDashRun(s, i) ==
  IF i > Len(s) \/ s[i] = "-" THEN 0 ELSE 1 + NonDashRun(s, i + 1)

\* the two compiled patterns: re.escape(project) + '-' and
\* '([^-]*)-' + re.escape(scheme) + '-'
ProjectPrefix(p) == [lead |-> FALSE, lit |-> p \o <<"-">>]
SchemePrefix(s) == [lead |-> TRUE, lit |-> <<"-">> \o s \o <<"-">>]

\* prefix.match(entry): a match anchored at the start of the name.  [^-]* can
\* only stop at the first "-", since the next pattern symbol is "-".
PrefixMatch(prefix, name) ==
  IF prefix.lead
  THEN LET k == NonDashRun(name, 1) IN StartsWith(Slice(name, k + 1, Len(name)), prefix.lit)
  ELSE StartsWith(name, prefix.lit)

\* a variant of the loop below that keeps the first match, whatever its mtime
RECURSIVE NewestLoopFirst(_, _, _, _)
NewestLoopFirst(entries, prefix, i, res) ==
  IF i > Len(entries) THEN res
  ELSE IF PrefixMatch(prefix, entries[i].name) /\ res = 0
       THEN NewestLoopFirst(entries, prefix, i + 1, i)
       ELSE NewestLoopFirst(entries, prefix, i + 1, res)

\* the loop of find_newest_matching_prefix; res is the index of result, 0 for None
RECURSIVE NewestLoop(_, _, _, _)
NewestLoop(entries, prefix, i, res) ==
  IF i > Len(entries) THEN res
  ELSE IF PrefixMatch(prefix, entries[i].name)
       THEN IF res = 0
            THEN NewestLoop(entries, prefix, i + 1, i)
            ELSE IF entries[i].mtime > entries[res].mtime
                 THEN NewestLoop(entries, prefix, i + 1, i)
                 ELSE NewestLoop(entries, prefix, i + 1, res)
       ELSE NewestLoop(entries, prefix, i + 1, res)

None == [found |-> FALSE, path |-> <<>>]
Some(p) == [found |-> TRUE, path |-> p]

\* os.listdir raises FileNotFoundError for a directory that does not exist
find_newest_matching_prefix(files, path, prefix) ==
  IF path \notin DOMAIN files THEN Raise("FileNotFoundError")
  ELSE LET entries == files[path]
           r == NewestLoop(entries, prefix, 1, 0)
       IN Ok(IF r = 0 THEN None ELSE Some(join(path, entries[r].name)))

find_project_path(files, proj) ==
  LET r == find_newest_matching_prefix(files, DerivedData, ProjectPrefix(proj)) IN
  IF r.err # "none" THEN r
  ELSE IF ~r.val.found THEN [err |-> "LookupError", val |-> r.val]
  ELSE r

bundle_dir(ppath) == join(ppath, <<"Logs/Test">>)

\* find_xcresult_path after its call of find_project_path
find_bundle(files, ppath, sch) ==
  LET r == find_newest_matching_prefix(files, bundle_dir(ppath), SchemePrefix(sch)) IN
  IF r.err # "none" THEN r
  ELSE IF ~r.val.found THEN [err |-> "LookupError", val |-> r.val]
  ELSE r

(***************************************************************************)
(* The JSON of the bundle.  A JSON list under a key is [k, v]: k says the  *)
(* key (and its _values) is there, v is the list.  An optional scalar is   *)
(* [has, v].                                                               *)
(***************************************************************************)
List(v) == [k |-> TRUE, v |-> v]
NoList == [k |-> FALSE, v |-> <<>>]

Has(v) == [has |-> TRUE, v |-> v]

\* node[key]['_values'][i] with i counted from 0
Descend(node, i) ==
  IF ~node.k THEN Raise("KeyError")
  ELSE IF i + 1 > Len(node.v) THEN Raise("IndexError")
  ELSE Ok(node.v[i + 1])

\* a variant of LastOf that reads actions[0]
FirstOf(node) ==
  IF ~node.k THEN Raise("KeyError")
  ELSE IF Len(node.v) = 0 THEN Raise("IndexError")
  ELSE Ok(node.v[1])

\* actions[-1]
LastOf(node) ==
  IF ~node.k THEN Raise("KeyError")
  ELSE IF Len(node.v) = 0 THEN Raise("IndexError")
  ELSE Ok(node.v[Len(node.v)])

\* a chain of scalar keys ending in _value
Scalar(opt) == IF opt.has THEN Ok(opt.v) ELSE Raise("KeyError")

find_device_info(parsed) ==
  LET action == LastOf(parsed.actions) IN
  IF action.err # "none" THEN action ELSE Scalar(action.val.modelUTI)

find_test_count(parsed) == Scalar(parsed.testsCount)

find_test_id(parsed) ==
  LET action == LastOf(parsed.actions) IN
  IF action.err # "none" THEN action ELSE Scalar(action.val.testsRef)

\* int(tests_count): the value of a string of decimal digits.  The counts of
\* the model carry no sign and no blanks; its other strings are a ValueError.
DigitSymbols == <<"0", "1", "2", "3", "4", "5", "6", "7", "8", "9">>

DigitValue(c) == (CHOOSE d \in 1..10 : DigitSymbols[d] = c) - 1

RECURSIVE IntLoop(_, _, _)
IntLoop(s, i, acc) ==
  IF i > Len(s) THEN Ok(acc)
  ELSE IF s[i] \notin Range(DigitSymbols) THEN Raise("ValueError")
  ELSE IntLoop(s, i + 1, 10 * acc + DigitValue(s[i]))

int(s) == IF Len(s) = 0 THEN Raise("ValueError") ELSE IntLoop(s, 1, 0)

\* the fixed chain of line 288 below action = actions[0]:
\* testableSummaries[0].tests[0].subtests[0].subtests[0].subtests[ids]
RECURSIVE DescendPath(_, _, _)
DescendPath(node, idxs, i) ==
  IF i > Len(idxs) THEN Ok(node)
  ELSE LET d == Descend(node, idxs[i]) IN
       IF d.err # "none" THEN d ELSE DescendPath(d.val, idxs, i + 1)

\* a variant of SubtestPath that reads the first subtest every time
SubtestPathFirst(ids) == <<0, 0, 0, 0, 0>>

SubtestPath(ids) == <<0, 0, 0, 0, ids>>

SummaryRef(leaf) == IF leaf.ref THEN Ok(leaf.id) ELSE Raise("KeyError")

\* the for loop of find_summary_id, ids counted from 0
RECURSIVE SummaryLoop(_, _, _, _)
SummaryLoop(action, n, ids, resultDef) ==
  IF ids >= n THEN Ok(resultDef)
  ELSE LET leaf == DescendPath(action, SubtestPath(ids), 1) IN
       IF leaf.err # "none" THEN leaf
       ELSE LET r == SummaryRef(leaf.val) IN
            IF r.err # "none" THEN r
            ELSE SummaryLoop(action, n, ids + 1, Append(resultDef, r.val))

find_summary_id(parsed, n) ==
  LET action == Descend(parsed, 0) IN
  IF action.err # "none" THEN action ELSE SummaryLoop(action.val, n, 0, <<>>)

(***************************************************************************)
(* collect_log_output, export_log and the split and zip of main            *)
(***************************************************************************)
Digit(d) == DigitSymbols[d + 1]

\* the decimal digits of a natural number
RECURSIVE Digits(_)
Digits(n) == IF n < 10 THEN <<Digit(n)>> ELSE Append(Digits(n \div 10), Digit(n % 10))

RECURSIVE Pow10(_)
Pow10(k) == IF k = 0 THEN 1 ELSE 10 * Pow10(k - 1)

\* n written with exactly k digits (n < 10^k)
RECURSIVE FixedDigits(_, _)
FixedDigits(n, k) ==
  IF k = 0 THEN <<>> ELSE Append(FixedDigits(n \div 10, k - 1), Digit(n % 10))

RECURSIVE StripZeros(_)
StripZeros(ds) ==
  IF Len(ds) > 1 /\ ds[Len(ds)] = "0" THEN StripZeros(Slice(ds, 1, Len(ds) - 1)) ELSE ds

\* "{:.2f}".format(float(v)) for a duration v given in thousandths of a second;
\* the durations of the model have no rounding tie
FormatDuration(v) ==
  LET cents == (v + 5) \div 10 IN
  Digits(cents \div 100) \o <<".">> \o FixedDigits(cents % 100, 2)

\* str(value_sum / n) for a float quotient: the shortest decimal that reads back
\* as the double, kept here to FracDigits fractional digits (rounded), at
\* least one
StrFloat(value_sum, n) ==
  LET scaled == (2 * value_sum * Pow10(FracDigits) + n) \div (2 * n) IN
  Digits(scaled \div Pow10(FracDigits))
    \o <<".">> \o StripZeros(FixedDigits(scaled % Pow10(FracDigits), FracDigits))

\* the inner loop over the measurements of one metric group
RECURSIVE ValueSum(_, _, _)
ValueSum(values, i, value_sum) ==
  IF i > Len(values) THEN value_sum ELSE ValueSum(values, i + 1, value_sum + values[i])

\* lines 345-348 for one metric group: the quotient raises for no measurement
MetricOutput(values) ==
  IF Len(values) = 0 THEN Raise("ZeroDivisionError")
  ELSE Ok(StrFloat(ValueSum(values, 1, 0), Len(values)))

\* the loop over the metric groups; res is the list being appended to, and is
\* returned as it stands when a group raises
RECURSIVE MetricsLoop(_, _, _)
MetricsLoop(metrics, i, res) ==
  IF i > Len(metrics) THEN Ok(res)
  ELSE LET out == MetricOutput(metrics[i]) IN
       IF out.err # "none" THEN [err |-> out.err, val |-> res]
       ELSE MetricsLoop(metrics, i + 1, Append(res, out.val))

collect_log_output(activity_log, res) ==
  LET r1 == IF activity_log.identifier.has
            THEN Append(res, activity_log.identifier.v) ELSE res
      r2 == IF activity_log.duration.has
            THEN Append(r1, FormatDuration(activity_log.duration.v)) ELSE r1
  IN IF activity_log.performanceMetrics.has
     THEN MetricsLoop(activity_log.performanceMetrics.v, 1, r2)
     ELSE Ok(r2)

\* a variant of CommaJoin that puts a blank after each comma
RECURSIVE CommaBlankJoin(_)
CommaBlankJoin(fields) ==
  IF Len(fields) = 0 THEN <<>>
  ELSE IF Len(fields) = 1 THEN fields[1]
  ELSE fields[1] \o <<",", " ">> \o CommaBlankJoin(Tail(fields))

\* ','.join(result)
RECURSIVE CommaJoin(_)
CommaJoin(fields) ==
  IF Len(fields) = 0 THEN <<>>
  ELSE IF Len(fields) = 1 THEN fields[1]
  ELSE fields[1] \o <<",">> \o CommaJoin(Tail(fields))

\* log.split(","): cur is the piece being read; the empty string gives <<"">>
RECURSIVE SplitLoop(_, _, _, _)
SplitLoop(s, i, cur, out) ==
  IF i > Len(s) THEN Append(out, cur)
  ELSE IF s[i] = "," THEN SplitLoop(s, i + 1, <<>>, Append(out, cur))
  ELSE SplitLoop(s, i + 1, Append(cur, s[i]), out)

CommaSplit(s) == SplitLoop(s, 1, <<>>, <<>>)

\* result and the joined string of export_log for the parsed contents
export_log(contents) ==
  LET c == collect_log_output(contents, <<>>) IN
  IF c.err # "none" THEN c ELSE [err |-> "none", val |-> c.val, str |-> CommaJoin(c.val)]

defaultValues ==
  << "testName", "Duration", "Disk Local Writes", "Clock Monotonic Time", "CPU Time",
     "Memory Physical", "CPU Instructions Retired", "Memory Peak Physical", "CPU Cycles" >>

\* dict(zip(keys, vals)): zip stops at the shorter list, a later pair wins
DictOfZip(keys, vals) ==
  LET n == Min(Len(keys), Len(vals)) IN
  [k \in { keys[i] : i \in 1..n } |->
     vals[CHOOSE i \in 1..n : keys[i] = k /\ \A j \in 1..n : keys[j] = k => j <= i]]

(***************************************************************************)
(* The inputs of a run: argument lists, file systems, bundles.             *)
(***************************************************************************)
ProjPath == <<"x", "/", "C", ".xcodeproj">>
SchemeS == <<"S">>
ExplicitPath == <<"r", ".xcresult">>

DefaultArgs == <<FlagProject, ProjPath, FlagScheme, SchemeS>>
ExplicitArgs == <<FlagBundle, ExplicitPath, FlagProject, ProjPath, FlagScheme, SchemeS>>

\* tokens of the enumerated argument lists: the three flags, a flag the
\* program does not know, and values
ArgTokens == { FlagProject, FlagScheme, FlagBundle, <<"-", "quiet">>,
               ProjPath, SchemeS, ExplicitPath }

\* argument lists that reach each step of main
SomeArgs == { <<>>, DefaultArgs, ExplicitArgs,
              <<FlagBundle, ExplicitPath>>,
              <<FlagBundle, ExplicitPath, FlagProject, ProjPath>>,
              <<FlagBundle, ExplicitPath, FlagProject, <<"C", ".txt">>, FlagScheme, SchemeS>>,
              <<FlagProject, <<"C">>, FlagScheme, SchemeS>>,
              <<FlagProject, <<".xcodeproj">>, FlagScheme, SchemeS>> }

Entry(n, t) == [name |-> n, mtime |-> t]

\* directory listings: distinct names, in any order, with any mtimes
Listings(names) ==
  { l \in SeqsUpTo([name : names, mtime : 1..MaxMtime], MaxEntries) :
      \A i, j \in 1..Len(l) : l[i].name = l[j].name => i = j }

ProjectDirNames == { <<"C", "-", "a">>, <<"C", "-", "b">>, <<"C", "C", "-", "a">> }
BundleNames == { <<"T", "-", "S", "-", "1">>, <<"-", "S", "-">>,
                 <<"T", "-", "X", "-", "S", "-">>, <<"S", "-", "1">> }

DefaultBundles == << Entry(<<"T", "-", "S", "-", "1">>, 1) >>

\* a DerivedData with the listing l; every project directory but C-b has a
\* Logs/Test directory
DerivedFs(l) ==
  [ p \in {DerivedData} \cup
          { bundle_dir(join(DerivedData, l[i].name)) :
              i \in { j \in 1..Len(l) : l[j].name # <<"C", "-", "b">> } }
    |-> IF p = DerivedData THEN l ELSE DefaultBundles ]

\* one project directory, whose Logs/Test has the listing l
LogsFs(l) ==
  [ p \in {DerivedData, bundle_dir(join(DerivedData, <<"C", "-", "a">>))}
    |-> IF p = DerivedData THEN << Entry(<<"C", "-", "a">>, 1) >> ELSE l ]

NoFs == [p \in {} |-> <<>>]

DefaultFs == LogsFs(DefaultBundles)

FileSystems ==
  {NoFs} \cup { DerivedFs(l) : l \in Listings(ProjectDirNames) }
         \cup { LogsFs(l) : l \in Listings(BundleNames) }

\* optional scalars of the JSON
NoStr == [has |-> FALSE, v |-> ""]
NoSeq == [has |-> FALSE, v |-> <<>>]
NoNum == [has |-> FALSE, v |-> 0]

Action(model, ref) == [modelUTI |-> model, testsRef |-> ref]

ActionKinds == { Action(m, r) : m \in {NoStr, Has("iPhone"), Has("iPad")},
                                r \in {NoStr, Has("t1")} }

DefaultActions == List(<< Action(Has("iPad"), Has("t0")), Action(Has("iPhone"), Has("t1")) >>)

Root(actions, count) == [actions |-> actions, testsCount |-> count]

SummaryIds == {"s1", "s2", "s3"}

Leaf(id) == [ref |-> TRUE, id |-> id]
NoRefLeaf == [ref |-> FALSE, id |-> ""]

\* the shape the traversal assumes: one list at each level above the leaves
Nest(leaves) == List(<< List(<< List(<< List(<< List(<< List(leaves) >>) >>) >>) >>) >>)

\* shapes it does not assume: an empty list, a missing key, or an empty
\* sibling in front of the assumed chain, d levels below the document
RECURSIVE Wrap(_, _)
Wrap(node, d) == IF d = 0 THEN node ELSE Wrap(List(<<node>>), d - 1)

OtherShapes(leaves) ==
  UNION { { Wrap(List(<<>>), d), Wrap(NoList, d) } : d \in 0..5 }
  \cup { Wrap(List(<< Wrap(List(<<>>), 4 - d), Wrap(List(leaves), 4 - d) >>), d) : d \in 0..4 }

DefaultLeaves == << Leaf("s1"), Leaf("s2"), Leaf("s3") >>

SummaryDocs ==
  { Nest(l) : l \in SeqsUpTo({ Leaf(id) : id \in SummaryIds } \cup {NoRefLeaf}, MaxSubtests) }
  \cup OtherShapes(DefaultLeaves)

ActivityLog(name, dur, metrics) ==
  [identifier |-> name, duration |-> dur, performanceMetrics |-> metrics]

\* measurement values, as float(value.get('_value')) reads them
MeasurementValues == {1, 2}

Groups == SeqsUpTo(MeasurementValues, MaxMeasurements)

RECURSIVE Repeat(_, _)
Repeat(x, k) == IF k = 0 THEN <<>> ELSE Append(Repeat(x, k - 1), x)

\* activity logs: every name and duration with a few metrics collections,
\* every metrics collection with one name and duration, and long collections
ActivityLogs ==
  { ActivityLog(n, d, m) :
      n \in { NoSeq, Has(<<"t">>), Has(<<"t", ",", "u">>), Has(<<>>) },
      d \in { NoNum, Has(0), Has(1234), Has(12996) },
      m \in { NoSeq, Has(<<>>), Has(<< <<1, 2>> >>) } }
  \cup { ActivityLog(Has(<<"t">>), Has(1234), Has(g)) : g \in SeqsUpTo(Groups, MaxGroups) }
  \cup { ActivityLog(NoSeq, NoNum, Has(g)) : g \in SeqsUpTo(Groups, MaxGroups) }
  \cup { ActivityLog(Has(<<"t">>), Has(1234), Has(Repeat(<<1>>, k))) : k \in 0..MaxUniformGroups }

DefaultLog(id) ==
  ActivityLog(Has(<<id>>), Has(1234), Has(IF id = "s2" THEN << <<1, 2>> >> ELSE << <<1>>, <<2, 2>> >>))

DefaultLogs == [id \in SummaryIds |-> DefaultLog(id)]

Bundle(root, doc, logs) ==
  [root |-> root, tests |-> [id \in {"t1"} |-> doc], logs |-> logs]

Count(n) == Has(Digits(n))

DefaultBundle == Bundle(Root(DefaultActions, Count(2)), Nest(DefaultLeaves), DefaultLogs)

\* data.txt before the run: absent, or left by an earlier run
NoFile == [exists |-> FALSE, old |-> FALSE, records |-> <<>>]
OldFile == [exists |-> TRUE, old |-> TRUE, records |-> <<>>]

(***************************************************************************)
(* Initial states: one input is enumerated widely, the others are fixed;   *)
(* InitSome combines a few values of every input.                          *)
(***************************************************************************)
InitLocals ==
  /\ pc = "start"
  /\ flags = EmptyDict
  /\ project = <<>>
  /\ scheme = <<>>
  /\ newest = None
  /\ project_path = <<>>
  /\ xcresult_path = <<>>
  /\ test_id = ""
  /\ tests_count = <<>>
  /\ summary_id = <<>>
  /\ sumID = 1
  /\ log = <<>>
  /\ device_info = ""
  /\ result = <<>>
  /\ listData = <<>>
  /\ dataWrites = 0
  /\ stdout = <<>>
  /\ calls = <<>>
  /\ toolPaths = {}
  /\ error = "none"
  /\ failedIn = "none"
  /\ exitCode = -1

InitArgs ==
  /\ args \in SeqsUpTo(ArgTokens, MaxArgs)
  /\ fs = DefaultFs /\ bundle = DefaultBundle /\ dataFile = NoFile

InitFs ==
  /\ args = DefaultArgs
  /\ fs \in FileSystems
  /\ bundle = DefaultBundle /\ dataFile = NoFile

InitSummary ==
  /\ args = DefaultArgs /\ fs = DefaultFs /\ dataFile = NoFile
  /\ \E c \in { Count(n) : n \in 0..MaxTests } \cup { NoSeq, Has(<<"x">>), Has(<<>>) },
        doc \in SummaryDocs :
        bundle = Bundle(Root(DefaultActions, c), doc, DefaultLogs)

InitLogs ==
  /\ args = DefaultArgs /\ fs = DefaultFs /\ dataFile = NoFile
  /\ \E l \in ActivityLogs, n \in 1..2 :
        bundle = Bundle(Root(DefaultActions, Count(n)), Nest(DefaultLeaves),
                        [id \in SummaryIds |-> IF id = "s1" THEN l ELSE DefaultLog(id)])

InitSome ==
  /\ args \in SomeArgs
  /\ fs = DefaultFs
  /\ dataFile \in {NoFile, OldFile}
  /\ \E a \in SeqsUpTo(ActionKinds, MaxActions), n \in {0, 1, 2},
        ids \in { {"s1"}, {"s1", "s2"} } :
        bundle = Bundle(Root(List(a), Count(n)), Nest(DefaultLeaves),
                        [id \in ids |-> DefaultLog(id)])

Init == InitLocals /\ (InitArgs \/ InitFs \/ InitSummary \/ InitLogs \/ InitSome)

(***************************************************************************)
(* xcresulttool_json: the subprocess may exit non-zero or print what is    *)
(* not JSON; otherwise it prints the object asked for.                     *)
(***************************************************************************)
ToolFailures == { Raise("CalledProcessError"), Raise("JSONDecodeError") }

\* xcresulttool get --path <bundle> --format json
ToolRoot == ToolFailures \cup { Ok(bundle.root) }

\* xcresulttool get --path <bundle> --id <id> --format json
ToolObject(store, id) ==
  ToolFailures \cup (IF id \in DOMAIN store THEN { Ok(store[id]) } ELSE {})

(***************************************************************************)
(* main, one action per statement that calls or can raise.                 *)
(***************************************************************************)
inputs == << args, fs, bundle >>

\* an exception nobody catches ends the run with a traceback and status 1
Fail(e, fn) ==
  /\ pc' = "failed"
  /\ error' = e
  /\ failedIn' = fn
  /\ exitCode' = 1

NoFail == UNCHANGED << error, failedIn, exitCode >>

Called(fns) == calls' = calls \o fns

\* a variant of Usage that prints the usage text and goes on
UsageNoExit ==
  /\ pc = "start"
  /\ args = <<>>
  /\ stdout' = Append(stdout, "usage")
  /\ pc' = "project"
  /\ UNCHANGED << inputs, flags, project, scheme, newest, project_path, xcresult_path,
                  test_id, tests_count, summary_id, sumID, log, device_info, result,
                  listData, dataFile, dataWrites, calls, toolPaths, error, failedIn,
                  exitCode >>

\* lines 26-29
Usage ==
  /\ pc = "start"
  /\ args = <<>>
  /\ stdout' = Append(stdout, "usage")
  /\ exitCode' = 1
  /\ pc' = "exited"
  /\ UNCHANGED << inputs, flags, project, scheme, newest, project_path, xcresult_path, test_id,
                  tests_count, summary_id, sumID, log, device_info, result, listData,
                  dataFile, dataWrites, calls, toolPaths, error, failedIn >>

\* line 33
ParseFlags ==
  /\ pc = "start"
  /\ args # <<>>
  /\ flags' = parse_xcodebuild_flags(args)
  /\ Called(<<"parse_xcodebuild_flags">>)
  /\ pc' = "project"
  /\ NoFail
  /\ UNCHANGED << inputs, project, scheme, newest, project_path, xcresult_path, test_id,
                  tests_count, summary_id, sumID, log, device_info, result, listData,
                  dataFile, dataWrites, stdout, toolPaths >>

\* line 37
GetProject ==
  /\ pc = "project"
  /\ IF FlagProject \notin DOMAIN flags
     THEN Fail("KeyError", "main") /\ UNCHANGED << project, calls >>
     ELSE LET r == project_from_project_path(flags[FlagProject]) IN
          /\ Called(<<"project_from_project_path">>)
          /\ IF r.err # "none"
             THEN Fail(r.err, "project_from_project_path") /\ UNCHANGED project
             ELSE project' = r.val /\ pc' = "scheme" /\ NoFail
  /\ UNCHANGED << inputs, flags, scheme, newest, project_path, xcresult_path, test_id,
                  tests_count, summary_id, sumID, log, device_info, result, listData,
                  dataFile, dataWrites, stdout, toolPaths >>

\* line 38
GetScheme ==
  /\ pc = "scheme"
  /\ IF FlagScheme \notin DOMAIN flags
     THEN Fail("KeyError", "main") /\ UNCHANGED scheme
     ELSE scheme' = flags[FlagScheme] /\ pc' = "resolve" /\ NoFail
  /\ UNCHANGED << inputs, flags, project, newest, project_path, xcresult_path, test_id,
                  tests_count, summary_id, sumID, log, device_info, result, listData,
                  dataFile, dataWrites, stdout, calls, toolPaths >>

\* a variant of ResolveBundle that deduces the bundle whatever the flags say
ResolveBundleDeduce ==
  /\ pc = "resolve"
  /\ Called(<<"find_xcresult_path">>)
  /\ pc' = "find_project"
  /\ NoFail
  /\ UNCHANGED << inputs, flags, project, scheme, newest, project_path, xcresult_path,
                  test_id, tests_count, summary_id, sumID, log, device_info, result,
                  listData, dataFile, dataWrites, stdout, toolPaths >>

\* lines 41-43, up to the call of find_xcresult_path
ResolveBundle ==
  /\ pc = "resolve"
  /\ IF FlagBundle \in DOMAIN flags
     THEN xcresult_path' = flags[FlagBundle] /\ pc' = "test_id" /\ UNCHANGED calls
     ELSE /\ Called(<<"find_xcresult_path">>)
          /\ pc' = "find_project"
          /\ UNCHANGED xcresult_path
  /\ NoFail
  /\ UNCHANGED << inputs, flags, project, scheme, newest, project_path, test_id,
                  tests_count, summary_id, sumID, log, device_info, result, listData,
                  dataFile, dataWrites, stdout, toolPaths >>

\* line 130
FindProjectPath ==
  /\ pc = "find_project"
  /\ Called(<<"find_project_path", "find_newest_matching_prefix">>)
  /\ LET r == find_project_path(fs, project) IN
     IF r.err = "FileNotFoundError"
     THEN Fail(r.err, "find_newest_matching_prefix") /\ UNCHANGED << newest, project_path >>
     ELSE /\ newest' = r.val
          /\ IF r.err # "none"
             THEN Fail(r.err, "find_project_path") /\ UNCHANGED project_path
             ELSE project_path' = r.val.path /\ pc' = "find_bundle" /\ NoFail
  /\ UNCHANGED << inputs, flags, project, scheme, xcresult_path, test_id,
                  tests_count, summary_id, sumID, log, device_info, result, listData,
                  dataFile, dataWrites, stdout, toolPaths >>

\* lines 131-141 and the assignment of line 43
FindBundle ==
  /\ pc = "find_bundle"
  /\ Called(<<"find_newest_matching_prefix">>)
  /\ LET r == find_bundle(fs, project_path, scheme) IN
     IF r.err = "FileNotFoundError"
     THEN Fail(r.err, "find_newest_matching_prefix") /\ UNCHANGED << newest, xcresult_path >>
     ELSE /\ newest' = r.val
          /\ IF r.err # "none"
             THEN Fail(r.err, "find_xcresult_path") /\ UNCHANGED xcresult_path
             ELSE xcresult_path' = r.val.path /\ pc' = "test_id" /\ NoFail
  /\ UNCHANGED << inputs, flags, project, scheme, project_path, test_id,
                  tests_count, summary_id, sumID, log, device_info, result, listData,
                  dataFile, dataWrites, stdout, toolPaths >>

\* every invocation of the tool is given main's xcresult_path
Invoke(fn) ==
  /\ Called(<<fn, "xcresulttool_json">>)
  /\ toolPaths' = toolPaths \cup {xcresult_path}

\* line 45
FindTestId ==
  /\ pc = "test_id"
  /\ Invoke("find_test_id")
  /\ \E parsed \in ToolRoot :
       IF parsed.err # "none"
       THEN Fail(parsed.err, "xcresulttool_json") /\ UNCHANGED test_id
       ELSE LET r == find_test_id(parsed.val) IN
            IF r.err # "none"
            THEN Fail(r.err, "find_test_id") /\ UNCHANGED test_id
            ELSE test_id' = r.val /\ pc' = "test_count" /\ NoFail
  /\ UNCHANGED << inputs, flags, project, scheme, newest, project_path, xcresult_path,
                  tests_count, summary_id, sumID, log, device_info, result, listData,
                  dataFile, dataWrites, stdout >>

\* lines 46-48
FindTestCount ==
  /\ pc = "test_count"
  /\ Invoke("find_test_count")
  /\ \E parsed \in ToolRoot :
       IF parsed.err # "none"
       THEN Fail(parsed.err, "xcresulttool_json") /\ UNCHANGED << tests_count, stdout >>
       ELSE LET r == find_test_count(parsed.val) IN
            IF r.err # "none"
            THEN Fail(r.err, "find_test_count") /\ UNCHANGED << tests_count, stdout >>
            ELSE /\ tests_count' = r.val
                 /\ stdout' = Append(stdout, "Number of Tests")
                 /\ pc' = "summary"
                 /\ NoFail
  /\ UNCHANGED << inputs, flags, project, scheme, newest, project_path, xcresult_path, test_id,
                  summary_id, sumID, log, device_info, result, listData,
                  dataFile, dataWrites >>

\* a variant of LoopAt that leaves the loop after the first record
LoopAtOnce(ids, i) == IF i <= Len(ids) /\ i = 1 THEN "export" ELSE "write"

\* the for statement of line 51: another record, or line 65
LoopAt(ids, i) == IF i <= Len(ids) THEN "export" ELSE "write"

\* line 50: int(tests_count) is evaluated before the call
FindSummaryId ==
  /\ pc = "summary"
  /\ LET n == int(tests_count) IN
     IF n.err # "none"
     THEN /\ Fail(n.err, "main")
          /\ UNCHANGED << summary_id, stdout, calls, toolPaths >>
     ELSE /\ Invoke("find_summary_id")
          /\ \E parsed \in ToolObject(bundle.tests, test_id) :
               IF parsed.err # "none"
               THEN Fail(parsed.err, "xcresulttool_json") /\ UNCHANGED << summary_id, stdout >>
               ELSE LET r == find_summary_id(parsed.val, n.val) IN
                    IF r.err # "none"
                    THEN Fail(r.err, "find_summary_id") /\ UNCHANGED << summary_id, stdout >>
                    ELSE /\ summary_id' = r.val
                         /\ stdout' = Append(stdout, "resultDef")
                         /\ pc' = LoopAt(r.val, 1)
                         /\ NoFail
  /\ UNCHANGED << inputs, flags, project, scheme, newest, project_path, xcresult_path, test_id,
                  tests_count, sumID, log, device_info, result, listData,
                  dataFile, dataWrites >>

\* line 52
ExportLog ==
  /\ pc = "export"
  /\ Invoke("export_log")
  /\ \E contents \in ToolObject(bundle.logs, summary_id[sumID]) :
       IF contents.err # "none"
       THEN Fail(contents.err, "xcresulttool_json") /\ UNCHANGED << log, result >>
       ELSE LET r == export_log(contents.val) IN
            /\ result' = r.val
            /\ IF r.err # "none"
               THEN Fail(r.err, "collect_log_output") /\ UNCHANGED log
               ELSE log' = r.str /\ pc' = "device" /\ NoFail
  /\ UNCHANGED << inputs, flags, project, scheme, newest, project_path, xcresult_path, test_id,
                  tests_count, summary_id, sumID, device_info, listData,
                  dataFile, dataWrites, stdout >>

\* lines 53-56
FindDeviceInfo ==
  /\ pc = "device"
  /\ Invoke("find_device_info")
  /\ \E parsed \in ToolRoot :
       IF parsed.err # "none"
       THEN Fail(parsed.err, "xcresulttool_json") /\ UNCHANGED << device_info, stdout >>
       ELSE LET r == find_device_info(parsed.val) IN
            IF r.err # "none"
            THEN Fail(r.err, "find_device_info") /\ UNCHANGED << device_info, stdout >>
            ELSE /\ device_info' = r.val
                 /\ stdout' = Append(stdout, "device,log")
                 /\ pc' = "record"
                 /\ NoFail
  /\ UNCHANGED << inputs, flags, project, scheme, newest, project_path, xcresult_path, test_id,
                  tests_count, summary_id, sumID, log, result, listData,
                  dataFile, dataWrites >>

\* lines 58-61
DictOfData(l) == DictOfZip(defaultValues, CommaSplit(l))

\* lines 58-63 and the next turn of the loop
RecordData ==
  /\ pc = "record"
  /\ listData' = Append(listData, DictOfData(log))
  /\ stdout' = Append(stdout, "dictOfData")
  /\ sumID' = sumID + 1
  /\ pc' = LoopAt(summary_id, sumID + 1)
  /\ NoFail
  /\ UNCHANGED << inputs, flags, project, scheme, newest, project_path, xcresult_path, test_id,
                  tests_count, summary_id, log, device_info, result,
                  dataFile, dataWrites, calls, toolPaths >>

\* str(data) written over data.txt
writeDataToFile(data) == [exists |-> TRUE, old |-> FALSE, records |-> data]

\* line 65 and the return of main
WriteData ==
  /\ pc = "write"
  /\ Called(<<"writeDataToFile">>)
  /\ dataFile' = writeDataToFile(listData)
  /\ dataWrites' = dataWrites + 1
  /\ pc' = "done"
  /\ exitCode' = 0
  /\ UNCHANGED << inputs, flags, project, scheme, newest, project_path, xcresult_path, test_id,
                  tests_count, summary_id, sumID, log, device_info, result, listData,
                  stdout, toolPaths, error, failedIn >>

Next ==
  \/ Usage
  \/ ParseFlags
  \/ GetProject
  \/ GetScheme
  \/ ResolveBundle
  \/ FindProjectPath
  \/ FindBundle
  \/ FindTestId
  \/ FindTestCount
  \/ FindSummaryId
  \/ ExportLog
  \/ FindDeviceInfo
  \/ RecordData
  \/ WriteData

Spec == Init /\ [][Next]_vars

(***************************************************************************)
(* Properties.                                                             *)
(***************************************************************************)
Called_(fn) == fn \in Range(calls)

CountCalls(fn) == Cardinality({ i \in 1..Len(calls) : calls[i] = fn })

\* a token is immediately followed by another in the argument list
Follows(k, v) == \E i \in 1..(Len(args) - 1) : args[i] = k /\ args[i + 1] = v

\* C1: parse_xcodebuild_flags captures a token as a flag's value only if it
\* immediately follows the flag name in the list, and a recognized flag that
\* no value token immediately follows has no entry in the mapping.
C1_ValueFollowsFlag ==
  Called_("parse_xcodebuild_flags") =>
    /\ \A k \in DOMAIN flags : k \in INTERESTING_FLAGS /\ Follows(k, flags[k])
    /\ \A k \in INTERESTING_FLAGS :
         (~\E v \in Range(args) : ~StartsWithDash(v) /\ Follows(k, v)) => k \notin DOMAIN flags

\* C2: with an explicit -resultBundlePath in the parsed flags the locator is
\* never called and every invocation of the inspection tool is given the
\* explicit path, whatever -project and -scheme are.
C2_ExplicitPathWins ==
  (Called_("parse_xcodebuild_flags") /\ FlagBundle \in DOMAIN flags) =>
    /\ ~Called_("find_xcresult_path")
    /\ ~Called_("find_project_path")
    /\ ~Called_("find_newest_matching_prefix")
    /\ toolPaths \subseteq { flags[FlagBundle] }

\* a complete run on the explicit path, with every tool invocation made
C2_Witness ==
  /\ pc = "done"
  /\ FlagBundle \in DOMAIN flags
  /\ toolPaths = {ExplicitPath}
  /\ CountCalls("xcresulttool_json") = 7

\* the entries of a listing that the pattern matches
Matching(l, prefix) == { i \in 1..Len(l) : PrefixMatch(prefix, l[i].name) }

\* ret is a newest matching entry of the directory dir, or None if none matches
NewestOf(dir, prefix, ret) ==
  LET l == fs[dir]
      M == Matching(l, prefix)
  IN IF M = {} THEN ret = None
     ELSE /\ ret.found
          /\ \E i \in M : /\ ret.path = join(dir, l[i].name)
                           /\ \A j \in M : l[i].mtime >= l[j].mtime

\* find_newest_matching_prefix has returned from its first, its second call
ReturnedForProject ==
  \/ CountCalls("find_newest_matching_prefix") = 1 /\ failedIn # "find_newest_matching_prefix"
  \/ CountCalls("find_newest_matching_prefix") = 2 /\ failedIn = "find_newest_matching_prefix"

ReturnedForBundle ==
  CountCalls("find_newest_matching_prefix") = 2 /\ failedIn # "find_newest_matching_prefix"

\* C3: find_newest_matching_prefix returns a matching entry whose mtime is at
\* least that of every matching entry, in any listing order, never an entry
\* that does not match, and None when no entry matches.
C3_NewestMatching ==
  /\ ReturnedForProject => NewestOf(DerivedData, ProjectPrefix(project), newest)
  /\ ReturnedForBundle => NewestOf(bundle_dir(project_path), SchemePrefix(scheme), newest)

\* the newest match is listed after an older match, and an entry that does
\* not match is newer than both
C3_Witness ==
  /\ ReturnedForBundle
  /\ LET l == fs[bundle_dir(project_path)]
         M == Matching(l, SchemePrefix(scheme))
     IN \E i, j \in M, n \in (1..Len(l)) \ M :
          /\ i < j
          /\ l[i].mtime < l[j].mtime
          /\ l[j].mtime < l[n].mtime
          /\ newest.path = join(bundle_dir(project_path), l[j].name)

\* the locator has ended, by a return or an exception
LocatorEnded == Called_("find_xcresult_path") /\ pc \notin {"find_project", "find_bundle"}

\* the directory being listed does not exist
RootMissing ==
  \/ DerivedData \notin DOMAIN fs
  \/ project_path # <<>> /\ bundle_dir(project_path) \notin DOMAIN fs

NoProjectDirectory ==
  DerivedData \in DOMAIN fs /\ Matching(fs[DerivedData], ProjectPrefix(project)) = {}

NoBundle ==
  /\ project_path # <<>>
  /\ bundle_dir(project_path) \in DOMAIN fs
  /\ Matching(fs[bundle_dir(project_path)], SchemePrefix(scheme)) = {}

\* C4: the locator fails with a LookupError when no project directory
\* matches, when no bundle matches, and when the directory being listed does
\* not exist, and returns no path in these cases.
C4_LookupErrors ==
  (LocatorEnded /\ (NoProjectDirectory \/ NoBundle \/ RootMissing)) =>
    /\ pc = "failed"
    /\ error \in LookupErrors
    /\ xcresult_path = <<>>

\* C7: with no argument the run prints the usage text and exits with status
\* 1 and does nothing else; with an argument the usage exit is never taken.
C7_UsageExit ==
  /\ (args = <<>> /\ pc # "start") =>
       /\ pc = "exited"
       /\ exitCode = 1
       /\ stdout = <<"usage">>
       /\ calls = <<>>
       /\ flags = EmptyDict
       /\ toolPaths = {}
       /\ dataWrites = 0
  /\ args # <<>> => (pc # "exited" /\ "usage" \notin Range(stdout))

\* the usage exit, with a data.txt of an earlier run in the directory
C7_Witness == pc = "exited" /\ args = <<>> /\ dataFile = OldFile

\* the reported test count, once main has read it
ReportedCount == int(tests_count).val

\* the subtests at the end of the fixed chain, read off the document
InnermostSubtests(doc) == doc.v[1].v[1].v[1].v[1].v[1].v

\* find_summary_id has returned (it prints its result just before)
SummaryReturned == "resultDef" \in Range(stdout)

\* C5: find_summary_id returns exactly N identifiers, those of the first N
\* innermost subtests in document order, or raises an index or key error;
\* main processes as many records as the reported test count.
C5_ExactlyNSummaries ==
  /\ SummaryReturned =>
       /\ Len(summary_id) = ReportedCount
       /\ \A i \in 1..ReportedCount :
            LET leaf == InnermostSubtests(bundle.tests[test_id])[i] IN
            leaf.ref /\ summary_id[i] = leaf.id
  /\ failedIn = "find_summary_id" => error \in {"IndexError", "KeyError"}
  /\ pc \in {"write", "done"} => Len(listData) = ReportedCount

\* two identifiers taken from a list of three, and the run completed
C5_Witness ==
  /\ pc = "done"
  /\ ReportedCount = 2
  /\ Len(InnermostSubtests(bundle.tests[test_id])) = 3
  /\ summary_id = <<"s1", "s2">>

\* the record main builds for a summary identifier
RecordOf(id) == DictOfData(CommaJoin(collect_log_output(bundle.logs[id], <<>>).val))

\* C6: a run is all-or-nothing.  Nothing runs after a failure or an exit;
\* data.txt changes in one step only, the last, after all N records were
\* aggregated; it then holds the N records in the order of the identifiers.
C6_AllOrNothing ==
  /\ [][pc \notin {"failed", "exited", "done"}]_vars
  /\ [][(dataFile' # dataFile \/ dataWrites' # dataWrites) =>
          /\ pc = "write" /\ pc' = "done"
          /\ dataWrites = 0 /\ dataWrites' = 1
          /\ Len(listData) = ReportedCount
          /\ dataFile' = [exists |-> TRUE, old |-> FALSE, records |-> listData]]_vars
  /\ [](pc \in {"failed", "exited"} => dataWrites = 0)
  /\ [](pc = "done" =>
          /\ dataWrites = 1
          /\ Len(dataFile.records) = ReportedCount
          /\ Len(summary_id) = ReportedCount
          /\ \A i \in 1..ReportedCount : dataFile.records[i] = RecordOf(summary_id[i]))

\* a failure after one record was aggregated, data.txt of an earlier run
\* still in place
C6_Witness ==
  /\ pc = "failed"
  /\ Len(listData) = 1
  /\ ReportedCount = 2
  /\ dataFile = OldFile

\* the value of a printed float in units of 10^-FracDigits
DecimalValue(str) ==
  LET dot == CHOOSE i \in 1..Len(str) : str[i] = "."
      frac == Slice(str, dot + 1, Len(str))
  IN int(Slice(str, 1, dot - 1)).val * Pow10(FracDigits)
       + int(frac).val * Pow10(FracDigits - Len(frac))

Sum(values) == ValueSum(values, 1, 0)

\* str is the printed mean of the values, to the printed precision
IsMeanOf(str, values) ==
  /\ Len(values) > 0
  /\ LET d == DecimalValue(str) * Len(values) - Sum(values) * Pow10(FracDigits) IN
     2 * d <= Len(values) /\ 2 * d >= -Len(values)

\* collect_log_output has run for summary_id[sumID], to its end or to an exception
CollectEnded ==
  \/ pc \in {"device", "record"}
  \/ pc = "failed" /\ failedIn = "collect_log_output"

FieldsBefore(al) ==
  (IF al.identifier.has THEN 1 ELSE 0) + (IF al.duration.has THEN 1 ELSE 0)

\* C8: for an activity log with performance metrics, collect_log_output
\* appends one value per metric group, in order, after the name and the
\* duration, and the k-th is the mean of the k-th group's measurements,
\* whatever the number of measurements.
C8_MeanPerGroup ==
  LET al == bundle.logs[summary_id[sumID]] IN
  (CollectEnded /\ al.performanceMetrics.has) =>
    /\ Len(result) = FieldsBefore(al) + Len(al.performanceMetrics.v)
    /\ \A k \in 1..Len(al.performanceMetrics.v) :
         IsMeanOf(result[FieldsBefore(al) + k], al.performanceMetrics.v[k])

\* the bundle has a last action, and it has no target-device model
NoDeviceModel ==
  /\ bundle.root.actions.k
  /\ Len(bundle.root.actions.v) > 0
  /\ ~bundle.root.actions.v[Len(bundle.root.actions.v)].modelUTI.has

\* the model of the last action is the one main uses
DeviceOfLastAction ==
  device_info # "" =>
    LET a == bundle.root.actions.v IN
    a[Len(a)].modelUTI.has /\ device_info = a[Len(a)].modelUTI.v

\* C9 as stated: with no device model on the last action the run fails with
\* a lookup error and writes no records, for every test count N >= 0; a
\* device model that is there is read from the last action.
C9_FailsForEveryCount ==
  /\ NoDeviceModel =>
       /\ pc \notin {"write", "done"}
       /\ dataWrites = 0
       /\ failedIn = "find_device_info" => error \in LookupErrors
  /\ DeviceOfLastAction

\* C9 amended: with no device model on the last action, the device lookup,
\* which runs once the log of a first record was exported (so only for
\* N >= 1), fails with a key error, no record is collected and data.txt is
\* not written; for N = 0 the device is never looked up and the run writes an
\* empty list.  A device model that is there is read from the last action.
C9_FailsAtFirstRecord ==
  /\ NoDeviceModel =>
       /\ listData = <<>>
       /\ pc # "record"
       /\ Called_("find_device_info") =>
            /\ pc = "failed"
            /\ failedIn \in {"find_device_info", "xcresulttool_json"}
            /\ failedIn = "find_device_info" => error = "KeyError"
            /\ dataWrites = 0
       /\ pc \in {"write", "done"} =>
            /\ ReportedCount = 0
            /\ ~Called_("find_device_info")
       /\ pc = "done" => dataFile.records = <<>>
       /\ (SummaryReturned /\ ReportedCount >= 1) => pc \notin {"write", "done"}
  /\ DeviceOfLastAction

\* the lookup fails on the last action although an earlier action has a model
C9_Witness ==
  /\ NoDeviceModel
  /\ failedIn = "find_device_info"
  /\ Len(bundle.root.actions.v) = 2
  /\ bundle.root.actions.v[1].modelUTI.has

\* the number of commas in a string
Commas(str) == Cardinality({ i \in 1..Len(str) : str[i] = "," })

RECURSIVE CommasIn(_)
CommasIn(fields) ==
  IF Len(fields) = 0 THEN 0 ELSE Commas(fields[1]) + CommasIn(Tail(fields))

\* main has recorded the log whose fields are still in result
Recorded == pc \in {"export", "write", "done"} /\ Len(listData) >= 1

LastRecord == listData[Len(listData)]

\* d maps the first n labels, and no other, to the first n of the pieces
ZipOf(d, pieces, n) ==
  /\ DOMAIN d = { defaultValues[i] : i \in 1..n }
  /\ \A i \in 1..n : d[defaultValues[i]] = pieces[i]

\* C10 as stated: splitting the joined output gives back the collected
\* fields F, so the mapping is the zip of the labels with F, with
\* min(9, |F|) entries.
C10_SplitGivesFields ==
  Recorded => ZipOf(LastRecord, result, Min(Len(defaultValues), Len(result)))

\* C10 amended: splitting the joined output gives max(1, |F| + c) pieces, c
\* the number of commas inside the fields; the mapping is the zip of the
\* labels with the pieces and has min(9, number of pieces) entries.  The
\* pieces are F when F is not empty and no field has a comma; for an empty F
\* there is one piece, the empty string.
C10_SplitGivesPieces ==
  Recorded =>
    LET F == result
        n == IF F = <<>> THEN 1 ELSE Len(F) + CommasIn(F)
        m == Min(Len(defaultValues), n)
    IN /\ Cardinality(DOMAIN LastRecord) = m
       /\ DOMAIN LastRecord = { defaultValues[i] : i \in 1..m }
       /\ (F # <<>> /\ CommasIn(F) = 0) => ZipOf(LastRecord, F, m)
       /\ F = <<>> => LastRecord = [l \in {"testName"} |-> <<>>]
       /\ LET kept == CommaJoin([i \in 1..m |-> LastRecord[defaultValues[i]]]) IN
          kept = Slice(log, 1, Len(kept))

\* more fields than labels: the mapping is cut at the last label
C10_Witness ==
  /\ Recorded
  /\ Len(result) > Len(defaultValues)
  /\ CommasIn(result) = 0
  /\ Cardinality(DOMAIN LastRecord) = Len(defaultValues)

====
